---- MODULE Spec2Model ----
(***************************************************************************)
(* Battery-widget.py: the BatteryWidget overlay.  One UI thread runs the   *)
(* Qt event loop, which delivers the 1 Hz QTimer timeout                   *)
(* (update_battery_info), the animation clock (QPropertyAnimation and      *)
(* QSequentialAnimationGroup advance), paint events and mouse presses.     *)
(*                                                                         *)
(* Time is counted in animation-clock ticks of TickMs milliseconds.        *)
(* Floating-point values are fixed-point integers, rounded to nearest:     *)
(* percents in units of 1/Scale percent, the pulse scale in units of       *)
(* 1/(10*Scale).                                                           *)
(***************************************************************************)
EXTENDS Integers, FiniteSets, Sequences, TLC

\* ---- granularity of the model (not program constants) ----
TickMs == 50
Scale == 100

\* ---- program constants ----
TimerIntervalMs == 1000
PercentDurationMs == 1000
GrowDurationMs == 150
ShrinkDurationMs == 250
LowThreshold == 20
MediumThreshold == 50

\* a duration in ticks: the first tick at or after the duration ends it
Ticks(ms) == (ms + TickMs - 1) \div TickMs
TimerTicks == Ticks(TimerIntervalMs)
PercentTicks == Ticks(PercentDurationMs)
GrowTicks == Ticks(GrowDurationMs)
ShrinkTicks == Ticks(ShrinkDurationMs)
PulseTicks == GrowTicks + ShrinkTicks

\* pulse_scale 1.0 and 1.1 in fixed point
PulseStartValue == 10 * Scale
PulseEndValue == 11 * Scale

\* ---- the sensor: psutil.sensors_battery() ----
\* percent is a float (fixed point here); power_plugged is True, False or None;
\* the whole result is None when no battery is present (present = FALSE)
NoBattery == [present |-> FALSE, percent |-> 0, power_plugged |-> "None"]
RawPercents == {0, 15 * Scale + Scale \div 2, 35 * Scale, 75 * Scale, 100 * Scale}
Batteries == [present : {TRUE}, percent : RawPercents, power_plugged : {"True", "False", "None"}]
Readings == Batteries \cup {NoBattery}

\* Python truthiness of self.plugged (True / False / None)
Truthy(x) == x = "True"

\* int(battery.percent): truncation of a non-negative float, as whole percents
IntPart(raw) == raw \div Scale

\* ---- arithmetic of the animations ----
Min(a, b) == IF a < b THEN a ELSE b
Max(a, b) == IF a > b THEN a ELSE b
Cube(x) == x * x * x

\* a / b rounded to nearest (b > 0), as floating point rounds
RoundDiv(a, b) == IF a >= 0 THEN (2 * a + b) \div (2 * b) ELSE 0 - ((2 * (0 - a) + b) \div (2 * b))

\* mutant: an overshooting curve (such as OutBack) set in place of OutCubic
OutBack(k, n) == Cube(n) - Cube(n - k) + k * (n - k) * n
\* QEasingCurve.OutCubic at time k of n: 1 - (1 - k/n)^3, as a numerator over n^3
OutCubic(k, n) == Cube(n) - Cube(n - k)
\* QEasingCurve.InCubic at time k of n: (k/n)^3, as a numerator over n^3
InCubic(k, n) == Cube(k)

\* QVariantAnimation's interpolation: from + (to - from) * progress
Interpolated(from, to, num, den) == from + RoundDiv((to - from) * num, den)

\* value of the percent animation at its current time
PercentValue(a) == Interpolated(a.startValue, a.endValue, OutCubic(a.currentTime, PercentTicks), Cube(PercentTicks))

\* mutant: anim_shrink given 1.1 as its end value too
PulseValueNoReturn(t) ==
  IF t <= GrowTicks
  THEN Interpolated(PulseStartValue, PulseEndValue, OutCubic(t, GrowTicks), Cube(GrowTicks))
  ELSE Interpolated(PulseEndValue, PulseEndValue, InCubic(t - GrowTicks, ShrinkTicks), Cube(ShrinkTicks))
\* value of the pulse group at group time t: anim_grow, then anim_shrink
PulseValue(t) ==
  IF t <= GrowTicks
  THEN Interpolated(PulseStartValue, PulseEndValue, OutCubic(t, GrowTicks), Cube(GrowTicks))
  ELSE Interpolated(PulseEndValue, PulseStartValue, InCubic(t - GrowTicks, ShrinkTicks), Cube(ShrinkTicks))

\* ---- the widget ----
VARIABLES
  animated_percent,       \* self._animated_percent
  pulse_scale,            \* self._pulse_scale
  plugged,                \* self.plugged
  prev_plugged,           \* self.prev_plugged
  animation,              \* self.animation: state, startValue, endValue, currentTime (ticks)
  pulse_animation_group,  \* self.pulse_animation_group: state, currentTime (ticks)
  timer_elapsed,          \* ticks since self.timer last fired (or was started)
  due,                    \* running animations the animation clock has not yet advanced to now
  visible,                \* the window is shown
  needs_paint,            \* self.update() was called and the paint event is pending
  painted,                \* what the last paintEvent drew and the screen shows
  app_running,            \* app.exec() has not returned
  event,                  \* the event handled last, with the sensor reading of a poll
  last_good,              \* the latest reading the sensor returned without raising
  since_plug              \* ticks since the latest poll that saw plugged go false -> true

vars == <<animated_percent, pulse_scale, plugged, prev_plugged, animation, pulse_animation_group,
          timer_elapsed, due, visible, needs_paint, painted, app_running, event, last_good, since_plug>>

\* the fields update_battery_info reads and writes
Widget == [animated_percent |-> animated_percent, pulse_scale |-> pulse_scale, plugged |-> plugged,
           prev_plugged |-> prev_plugged, animation |-> animation,
           pulse_animation_group |-> pulse_animation_group]

\* __init__ and initAnimation, before the initial update_battery_info call
NewWidget == [animated_percent |-> 0, pulse_scale |-> PulseStartValue, plugged |-> "False",
              prev_plugged |-> "False",
              animation |-> [state |-> "Stopped", startValue |-> 0, endValue |-> 0, currentTime |-> 0],
              pulse_animation_group |-> [state |-> "Stopped", currentTime |-> 0]]

\* QAbstractAnimation.start(): nothing if already running, else rewind and run
start(a) == IF a.state = "Running" THEN a ELSE [a EXCEPT !.state = "Running", !.currentTime = 0]
\* QAbstractAnimation.stop(): the current time and value stay where they are
stop(a) == [a EXCEPT !.state = "Stopped"]

\* int(battery.percent) if battery else 0
TargetPercent(battery) == IF battery.present THEN IntPart(battery.percent) ELSE 0
\* mutant: no battery leaves plugged as None
PluggedOfNoDefault(battery) == IF battery.present THEN battery.power_plugged ELSE "None"
\* battery.power_plugged if battery else False
PluggedOf(battery) == IF battery.present THEN battery.power_plugged ELSE "False"
\* mutant: the previous reading is not looked at
PulseTriggerNoPrev(now, prev) == Truthy(now)
\* if self.plugged and not self.prev_plugged
PulseTrigger(now, prev) == Truthy(now) /\ ~Truthy(prev)

\* mutant: the animation always starts from 0
RestartedFromZero(a, current, target) ==
  start([stop(a) EXCEPT !.startValue = 0, !.endValue = target * Scale])
\* mutant: animation.stop() left out, so start() finds it running
RestartedWithoutStop(a, current, target) ==
  start([a EXCEPT !.startValue = current, !.endValue = target * Scale])
\* the percent animation after stop(), setStartValue, setEndValue, start()
Restarted(a, current, target) ==
  start([stop(a) EXCEPT !.startValue = current, !.endValue = target * Scale])

\* mutant: self.prev_plugged = self.plugged left out
update_battery_info_stale_prev(w, battery) ==
  LET target_percent == TargetPercent(battery)
      now_plugged == PluggedOf(battery)
      trigger == PulseTrigger(now_plugged, w.prev_plugged)
      group == IF trigger THEN start(w.pulse_animation_group) ELSE w.pulse_animation_group
      anim == Restarted(w.animation, w.animated_percent, target_percent)
  IN [animated_percent |-> PercentValue(anim),
      pulse_scale |-> IF group.state = "Running" /\ group.currentTime = 0
                      THEN PulseValue(0) ELSE w.pulse_scale,
      plugged |-> now_plugged,
      prev_plugged |-> w.prev_plugged,
      animation |-> anim,
      pulse_animation_group |-> group]
\* the try block of update_battery_info when nothing raises
update_battery_info(w, battery) ==
  LET target_percent == TargetPercent(battery)
      now_plugged == PluggedOf(battery)
      trigger == PulseTrigger(now_plugged, w.prev_plugged)
      group == IF trigger THEN start(w.pulse_animation_group) ELSE w.pulse_animation_group
      anim == Restarted(w.animation, w.animated_percent, target_percent)
  IN [animated_percent |-> PercentValue(anim),
      pulse_scale |-> IF group.state = "Running" /\ group.currentTime = 0
                      THEN PulseValue(0) ELSE w.pulse_scale,
      plugged |-> now_plugged,
      prev_plugged |-> now_plugged,
      animation |-> anim,
      pulse_animation_group |-> group]

\* one tick of the animation clock on a running animation; it stops at its duration
Advanced(a, duration) ==
  LET t == Min(a.currentTime + 1, duration)
  IN [a EXCEPT !.currentTime = t, !.state = IF t >= duration THEN "Stopped" ELSE "Running"]

\* mutant: the amber test placed before the red one
ColorPairAmberFirst(is_plugged, percent) ==
  IF Truthy(is_plugged) THEN "green"
  ELSE IF percent < MediumThreshold * Scale THEN "amber"
  ELSE IF percent < LowThreshold * Scale THEN "red"
  ELSE "cyan"
\* the colours and the bolt paintEvent draws
ColorPair(is_plugged, percent) ==
  IF Truthy(is_plugged) THEN "green"
  ELSE IF percent < LowThreshold * Scale THEN "red"
  ELSE IF percent < MediumThreshold * Scale THEN "amber"
  ELSE "cyan"
Drawing(is_plugged, percent) ==
  [colors |-> ColorPair(is_plugged, percent), bolt |-> Truthy(is_plugged), text |-> percent \div Scale]
NotPainted == [colors |-> "none", bolt |-> FALSE, text |-> 0]

\* initUI: setWindowFlags(Qt.FramelessWindowHint | Qt.Tool)
WindowFlags == {"FramelessWindowHint", "Tool"}
\* Qt sets WA_QuitOnClose only on top-level widgets of type Window or Dialog, and
\* only the close of a window with that attribute makes app.exec() return
QuitOnClose == "Tool" \notin WindowFlags

NoEvent(kind) == [kind |-> kind, reading |-> NoBattery]
PlugEdge(battery, good) ==
  Truthy(PluggedOf(battery)) /\ ~(good.any /\ Truthy(PluggedOf(good.battery)))

SetWidget(w) ==
  /\ animated_percent' = w.animated_percent
  /\ pulse_scale' = w.pulse_scale
  /\ plugged' = w.plugged
  /\ prev_plugged' = w.prev_plugged
  /\ animation' = w.animation
  /\ pulse_animation_group' = w.pulse_animation_group

\* BatteryWidget(), its initial update_battery_info call, timer.start(1000), widget.show()
Init ==
  /\ \/ \E battery \in Readings :
          LET w == update_battery_info(NewWidget, battery)
          IN /\ animated_percent = w.animated_percent
             /\ pulse_scale = w.pulse_scale
             /\ plugged = w.plugged
             /\ prev_plugged = w.prev_plugged
             /\ animation = w.animation
             /\ pulse_animation_group = w.pulse_animation_group
             /\ event = [kind |-> "poll_ok", reading |-> battery]
             /\ last_good = [any |-> TRUE, battery |-> battery]
             /\ since_plug = IF PlugEdge(battery, [any |-> FALSE, battery |-> NoBattery])
                             THEN 0 ELSE PulseTicks
     \/ /\ animated_percent = NewWidget.animated_percent
        /\ pulse_scale = NewWidget.pulse_scale
        /\ plugged = NewWidget.plugged
        /\ prev_plugged = NewWidget.prev_plugged
        /\ animation = NewWidget.animation
        /\ pulse_animation_group = NewWidget.pulse_animation_group
        /\ event = NoEvent("poll_raise")
        /\ last_good = [any |-> FALSE, battery |-> NoBattery]
        /\ since_plug = PulseTicks
  /\ timer_elapsed = 0
  /\ due = {}
  /\ visible = TRUE
  /\ needs_paint = TRUE
  /\ painted = NotPainted
  /\ app_running = TRUE

\* the clock moves on by one tick once every event of this instant is handled
Tick ==
  /\ app_running
  /\ due = {}
  /\ ~needs_paint
  /\ timer_elapsed < TimerTicks
  /\ timer_elapsed' = timer_elapsed + 1
  /\ due' = {n \in {"animation"} : animation.state = "Running"}
            \cup {n \in {"pulse"} : pulse_animation_group.state = "Running"}
  /\ since_plug' = Min(since_plug + 1, PulseTicks)
  /\ event' = NoEvent("tick")
  /\ UNCHANGED <<animated_percent, pulse_scale, plugged, prev_plugged, animation,
                 pulse_animation_group, visible, needs_paint, painted, app_running, last_good>>

\* the animation clock: every running animation advances and sets its property
AnimationTimerEvent ==
  /\ app_running
  /\ due # {}
  /\ LET a == IF "animation" \in due THEN Advanced(animation, PercentTicks) ELSE animation
         g == IF "pulse" \in due THEN Advanced(pulse_animation_group, PulseTicks)
              ELSE pulse_animation_group
     IN /\ animation' = a
        /\ pulse_animation_group' = g
        /\ animated_percent' = IF "animation" \in due THEN PercentValue(a) ELSE animated_percent
        /\ pulse_scale' = IF "pulse" \in due THEN PulseValue(g.currentTime) ELSE pulse_scale
  /\ due' = {}
  /\ needs_paint' = visible
  /\ event' = NoEvent("animate")
  /\ UNCHANGED <<plugged, prev_plugged, timer_elapsed, visible, painted, app_running,
                 last_good, since_plug>>

\* timer timeout -> update_battery_info, the sensor returning a reading
PollOk(battery) ==
  /\ app_running
  /\ timer_elapsed >= TimerTicks
  /\ LET w == update_battery_info(Widget, battery)
     IN /\ SetWidget(w)
        /\ due' = (due \ {"animation"}) \ {n \in {"pulse"} : pulse_animation_group.state = "Stopped"}
  /\ timer_elapsed' = 0
  /\ needs_paint' = visible
  /\ event' = [kind |-> "poll_ok", reading |-> battery]
  /\ last_good' = [any |-> TRUE, battery |-> battery]
  /\ since_plug' = IF PlugEdge(battery, last_good) THEN 0 ELSE since_plug
  /\ UNCHANGED <<visible, painted, app_running>>

\* mutant: no try/except, the exception ends the program
PollRaiseUncaught ==
  /\ app_running
  /\ timer_elapsed >= TimerTicks
  /\ timer_elapsed' = 0
  /\ event' = NoEvent("poll_raise")
  /\ app_running' = FALSE
  /\ UNCHANGED <<animated_percent, pulse_scale, plugged, prev_plugged, animation,
                 pulse_animation_group, due, visible, needs_paint, painted,
                 last_good, since_plug>>
\* timer timeout -> update_battery_info, the sensor read raising: except, print
PollRaise ==
  /\ app_running
  /\ timer_elapsed >= TimerTicks
  /\ timer_elapsed' = 0
  /\ event' = NoEvent("poll_raise")
  /\ UNCHANGED <<animated_percent, pulse_scale, plugged, prev_plugged, animation,
                 pulse_animation_group, due, visible, needs_paint, painted, app_running,
                 last_good, since_plug>>

paintEvent ==
  /\ app_running
  /\ visible
  /\ needs_paint
  /\ painted' = Drawing(plugged, animated_percent)
  /\ needs_paint' = FALSE
  /\ event' = NoEvent("paint")
  /\ UNCHANGED <<animated_percent, pulse_scale, plugged, prev_plugged, animation,
                 pulse_animation_group, timer_elapsed, due, visible, app_running, last_good,
                 since_plug>>

mousePressEvent(button) ==
  /\ app_running
  /\ visible
  /\ event' = NoEvent(button)
  /\ IF button = "RightButton"
     THEN /\ visible' = FALSE
          /\ needs_paint' = FALSE
          /\ painted' = NotPainted
          /\ app_running' = IF QuitOnClose THEN FALSE ELSE app_running
     ELSE UNCHANGED <<visible, needs_paint, painted, app_running>>
  /\ UNCHANGED <<animated_percent, pulse_scale, plugged, prev_plugged, animation,
                 pulse_animation_group, timer_elapsed, due, last_good, since_plug>>

Buttons == {"LeftButton", "RightButton", "MiddleButton"}

Next ==
  \/ Tick
  \/ AnimationTimerEvent
  \/ \E battery \in Readings : PollOk(battery)
  \/ PollRaise
  \/ paintEvent
  \/ \E button \in Buttons : mousePressEvent(button)

Spec == Init /\ [][Next]_vars

\* the event loop handles every event that is pending
LiveSpec ==
  /\ Spec
  /\ WF_vars(Tick)
  /\ WF_vars(AnimationTimerEvent)
  /\ WF_vars(paintEvent)
  /\ WF_vars(PollRaise \/ \E battery \in Readings : PollOk(battery))

\* ---- properties ----
IntegerPercents == {r \in RawPercents : (r \div Scale) * Scale = r}
SensorPercent(p) == last_good.any /\ last_good.battery.present /\ last_good.battery.percent = p
PollStep == event'.kind = "poll_ok"

C2_PulseOver ==
  (since_plug >= Ticks(150 + 250) /\ "pulse" \notin due)
    => (pulse_scale = 10 * Scale /\ pulse_animation_group.state = "Stopped")
C2_NoRetrigger ==
  (/\ PollStep
   /\ last_good.any /\ last_good.battery.present /\ last_good.battery.power_plugged = "True"
   /\ event'.reading.present /\ event'.reading.power_plugged = "True")
    => (pulse_animation_group' = pulse_animation_group /\ pulse_scale' = pulse_scale)
\* C2: once 400 ms have passed since a poll that saw plugged go false -> true and the
\* animation clock has been served, pulse_scale is exactly 1.0 and the pulse is over;
\* a poll reading plugged=true after a successful poll that read true leaves the pulse alone.
C2_Pulse == []C2_PulseOver /\ [][C2_NoRetrigger]_vars
C2_Witness ==
  /\ event.kind = "poll_ok"
  /\ event.reading.present /\ event.reading.power_plugged = "True"
  /\ pulse_animation_group = [state |-> "Stopped", currentTime |-> PulseTicks]
  /\ pulse_scale = 10 * Scale

\* C3: a poll whose sensor read raises changes nothing of the widget, the exception
\* stays inside the callback and the timer is armed for the next tick.
C3_RaiseSkips ==
  [][event'.kind = "poll_raise"
       => /\ UNCHANGED <<animated_percent, pulse_scale, plugged, prev_plugged, animation,
                         pulse_animation_group, due, visible, needs_paint, painted, last_good>>
          /\ app_running'
          /\ timer_elapsed' = 0]_vars
C3_Witness ==
  /\ event.kind = "poll_raise"
  /\ last_good.any
  /\ animation.state = "Running"
  /\ animation.currentTime > 0
  /\ timer_elapsed = 0

C4_NoBatteryPoll ==
  (event.kind = "poll_ok" /\ ~event.reading.present)
    => (plugged = "False" /\ animation.endValue = 0 /\ animation.state = "Running" /\ app_running)
\* C4: a poll that finds no battery sets plugged to False and the animation's target
\* to 0 without an exception, and while no battery is found the displayed percent
\* reaches 0 and stays there.
C4_NoBattery ==
  /\ []C4_NoBatteryPoll
  /\ (<>[](last_good.any /\ ~last_good.battery.present)) => <>[](animated_percent = 0)
C4_Witness ==
  /\ last_good.any /\ ~last_good.battery.present
  /\ animation.startValue > 0
  /\ animated_percent = 0
  /\ plugged = "False"

\* C5: what paintEvent draws is green when plugged, else red below 20, amber from 20
\* below 50, cyan from 50, of the percent displayed at paint time.
C5_Colors ==
  event.kind = "paint" =>
    /\ plugged = "True" => painted.colors = "green"
    /\ (plugged # "True" /\ animated_percent < 20 * Scale) => painted.colors = "red"
    /\ (plugged # "True" /\ animated_percent >= 20 * Scale /\ animated_percent < 50 * Scale)
         => painted.colors = "amber"
    /\ (plugged # "True" /\ animated_percent >= 50 * Scale) => painted.colors = "cyan"
C5_Witness ==
  /\ event.kind = "paint"
  /\ plugged = "False"
  /\ animated_percent = 35 * Scale
  /\ painted.colors = "amber"

\* C6: once a right-click has closed the widget the program has terminated.
C6_CloseTerminates == ~visible => ~app_running

\* C7: every successful poll leaves the percent animation running from time 0, from the
\* percent displayed at the poll to the whole percent just read, and does not move the
\* displayed percent.
C7_Restart ==
  [][PollStep
       => /\ animation'.state = "Running"
          /\ animation'.currentTime = 0
          /\ animation'.startValue = animated_percent
          /\ animation'.endValue = (IF event'.reading.present
                                    THEN (event'.reading.percent \div Scale) * Scale ELSE 0)
          /\ animated_percent' = animated_percent]_vars
C7_Witness ==
  /\ event.kind = "poll_ok"
  /\ animation.startValue % Scale # 0
  /\ animation.endValue # animation.startValue
  /\ animation.currentTime = 0

C8_Edge ==
  event'.reading.present /\ event'.reading.power_plugged = "True"
  /\ ~(last_good.any /\ last_good.battery.present /\ last_good.battery.power_plugged = "True")
C8_Step ==
  /\ PollStep =>
       IF C8_Edge /\ pulse_animation_group.state = "Stopped"
       THEN pulse_animation_group' = [state |-> "Running", currentTime |-> 0]
       ELSE pulse_animation_group' = pulse_animation_group
  /\ event'.kind = "poll_raise" =>
       (pulse_animation_group' = pulse_animation_group /\ last_good' = last_good)
\* C8: a poll starts the pulse exactly when it reads plugged=true and the latest
\* successful poll (none: false) did not; a running pulse is not rewound, and a poll
\* that raises neither starts the pulse nor counts as a reading.
C8_PulseStart == [][C8_Step]_vars
C8_Witness ==
  /\ event.kind = "poll_ok"
  /\ pulse_animation_group = [state |-> "Running", currentTime |-> 0]
  /\ animation.startValue > 0

\* C9: the displayed percent is always within [0,100] and between the animation's start
\* and end values; pulse_scale is always within [1.0,1.1] and is 1.0 whenever the pulse
\* is not running.
C9_Ranges ==
  /\ animated_percent >= 0 /\ animated_percent <= 100 * Scale
  /\ animated_percent >= Min(animation.startValue, animation.endValue)
  /\ animated_percent <= Max(animation.startValue, animation.endValue)
  /\ pulse_scale >= 10 * Scale /\ pulse_scale <= 11 * Scale
  /\ pulse_animation_group.state # "Running" => pulse_scale = 10 * Scale
C9_Witness ==
  /\ animation.state = "Running"
  /\ animation.startValue < animated_percent /\ animated_percent < animation.endValue
  /\ pulse_animation_group.state = "Running"
  /\ pulse_scale > 10 * Scale /\ pulse_scale < 11 * Scale

\* C10: prev_plugged equals plugged and both are the plugged value of the latest
\* successful reading (False if none, or if it found no battery); a paint uses it.
C10_Plugged ==
  /\ prev_plugged = plugged
  /\ plugged = (IF last_good.any /\ last_good.battery.present
                THEN last_good.battery.power_plugged ELSE "False")
  /\ event.kind = "paint" =>
       painted.bolt = (last_good.any /\ last_good.battery.present
                       /\ last_good.battery.power_plugged = "True")
C10_Witness ==
  /\ event.kind = "paint"
  /\ painted.bolt
  /\ animation.state = "Running" /\ animation.currentTime = 0
  /\ animation.startValue % Scale # 0
  /\ animated_percent < animation.endValue

====
